---- MODULE Spec2Model ----
(***************************************************************************)
(* Model of audio_analysis.wavetable.WavetableSynthesizer.                 *)
(*                                                                         *)
(* The synthesizer keeps one field (sr).  Every method is modelled as one  *)
(* action that draws the call's arguments from bounded sets, runs the      *)
(* whole method body and records the arguments, the locals the properties  *)
(* speak about and the returned value (or the exception raised).  The      *)
(* code is single-threaded and synchronous, so one call is live at a time. *)
(*                                                                         *)
(* Samples are exact numbers of the field Q(sqrt 5): a number is a triple  *)
(* <<p, q, r>> standing for (p + q*sqrt(5)) / r with r > 0, kept in lowest *)
(* terms.  This field holds cos(2*pi*m/N) for every transform size N the   *)
(* model draws, so the inverse transform and the divisions of the          *)
(* normalisation are computed exactly (no rounding is modelled).           *)
(***************************************************************************)
EXTENDS Integers, Sequences, FiniteSets, TLC

\* ------------------------------------------------------------------ bounds
MaxSize == 6
MaxBins == 3
MaxMag == 2
MaxStftBins == 2
MaxFrames == 3
MaxSeed == 2
MaxTables == 4
MaxLen == 2
MaxAmp == 1
MaxSteps == 4
MaxEntries == 2
MaxFiles == 2

\* --------------------------------------------------------- program constants
DefaultSr == 44100

VARIABLES
    sr,                \* self.sr
    op,                \* the method whose call frame is live ("idle": none)
    raised,            \* "none", or the exception the call ended with
    spectrum,          \* create_wavetable_from_spectrum: the caller's argument
    wavetable_size,    \* argument of create_wavetable_from_spectrum / _stack
    complex_spectrum,  \* create_wavetable_from_spectrum: the local, at exit
    wavetable,         \* create_wavetable_from_spectrum: the returned array
    stft_matrix,       \* create_wavetable_stack: the caller's argument (bins x frames)
    num_tables,        \* create_wavetable_stack: argument
    frame_indices,     \* create_wavetable_stack: the local, 0-based frame indices
    wavetables,        \* create_wavetable_stack: the returned stack
    wavetable1,        \* morph_wavetables: the caller's first argument
    wavetable2,        \* morph_wavetables: the caller's second argument
    num_steps,         \* morph_wavetables: argument
    morphed,           \* morph_wavetables: the returned stack
    generated,         \* generate_saw_wavetable: the returned array
    save_input,        \* save_wavetable: the caller's wavetable argument
    written,           \* save_wavetable: what sf.write was given (<<>>: not called)
    features,          \* save_features: the feature map argument
    format,            \* save_features: the format selector
    output_file,       \* save_features: the output file, "absent" before the call
    arrays,            \* to_npz: the flat key -> array mapping, in insertion order
    main,              \* one run of the command line: position, arguments, outcome
    batch,             \* one run of batch_analyze: directory, file list, loop position
    memory             \* the arrays, by name, as a synthesizer call left them

vars == <<sr, op, raised, spectrum, wavetable_size, complex_spectrum, wavetable,
          stft_matrix, num_tables, frame_indices, wavetables,
          wavetable1, wavetable2, num_steps, morphed,
          generated, save_input, written,
          features, format, output_file, arrays, main, batch, memory>>

\* ------------------------------------------------------- exact arithmetic
Abs(n) == IF n < 0 THEN -n ELSE n

Sgn(n) == IF n > 0 THEN 1 ELSE IF n < 0 THEN -1 ELSE 0

RECURSIVE GCD(_, _)
GCD(a, b) == IF b = 0 THEN a ELSE GCD(b, a % b)

\* (p + q*sqrt 5) / r in lowest terms with a positive denominator.
Reduce(p, q, r) ==
    LET g == GCD(GCD(Abs(p), Abs(q)), Abs(r))
        s == Sgn(r)
    IN  <<(s * p) \div g, (s * q) \div g, (s * r) \div g>>

NumOf(n) == <<n, 0, 1>>

Zero == NumOf(0)

One == NumOf(1)

\* The sign of p + q*sqrt 5.
SignPQ(p, q) ==
    IF q = 0 THEN Sgn(p)
    ELSE IF p = 0 THEN Sgn(q)
    ELSE IF p > 0 /\ q > 0 THEN 1
    ELSE IF p < 0 /\ q < 0 THEN -1
    ELSE IF p > 0 THEN Sgn(p * p - 5 * q * q)
    ELSE Sgn(5 * q * q - p * p)

NumSign(x) == SignPQ(x[1], x[2])

NumNeg(x) == <<-x[1], -x[2], x[3]>>

NumAbs(x) == IF NumSign(x) < 0 THEN NumNeg(x) ELSE x

NumAdd(x, y) == Reduce(x[1] * y[3] + y[1] * x[3], x[2] * y[3] + y[2] * x[3], x[3] * y[3])

NumSub(x, y) == NumAdd(x, NumNeg(y))

NumMul(x, y) ==
    Reduce(x[1] * y[1] + 5 * x[2] * y[2], x[1] * y[2] + x[2] * y[1], x[3] * y[3])

\* x / y for y # 0: multiply by the conjugate p - q*sqrt 5 of y's numerator.
NumDiv(x, y) ==
    Reduce(y[3] * (x[1] * y[1] - 5 * x[2] * y[2]),
           y[3] * (x[2] * y[1] - x[1] * y[2]),
           x[3] * (y[1] * y[1] - 5 * y[2] * y[2]))

NumLess(x, y) == NumSign(NumSub(x, y)) < 0

NumLeq(x, y) == NumSign(NumSub(x, y)) <= 0

RECURSIVE SeqSum(_)
SeqSum(s) == IF Len(s) = 0 THEN 0 ELSE s[1] + SeqSum(Tail(s))

\* np.max(np.abs(a)) of a non-empty array.
RECURSIVE MaxAbs(_)
MaxAbs(a) ==
    IF Len(a) = 1 THEN NumAbs(a[1])
    ELSE LET m == MaxAbs(Tail(a))
         IN  IF NumLess(m, NumAbs(a[1])) THEN NumAbs(a[1]) ELSE m

\* ------------------------------------------------------- complex spectrum
Cplx(re, im) == [re |-> re, im |-> im]

Conj(z) == Cplx(z.re, -z.im)

\* 4*cos(2*pi*m/N) as <<p, q>> = p + q*sqrt 5, for the sizes N <= 6.
Cos4(m, N) ==
    LET r == m % N
    IN  CASE N = 1 -> <<4, 0>>
          [] N = 2 -> IF r = 0 THEN <<4, 0>> ELSE <<-4, 0>>
          [] N = 3 -> IF r = 0 THEN <<4, 0>> ELSE <<-2, 0>>
          [] N = 4 -> IF r = 0 THEN <<4, 0>> ELSE IF r = 2 THEN <<-4, 0>> ELSE <<0, 0>>
          [] N = 5 -> IF r = 0 THEN <<4, 0>>
                      ELSE IF r \in {1, 4} THEN <<-1, 1>> ELSE <<-1, -1>>
          [] N = 6 -> IF r = 0 THEN <<4, 0>>
                      ELSE IF r \in {1, 5} THEN <<2, 0>>
                      ELSE IF r \in {2, 4} THEN <<-2, 0>> ELSE <<-4, 0>>

\* np.fft.ifft(X).real: sample n is (1/N) * sum_k Re(X[k] * e^(2*pi*i*k*n/N))
\*   = (1/N) * sum_k (X[k].re * cos(2*pi*k*n/N) - X[k].im * sin(2*pi*k*n/N)).
\* Every bin the method builds is a real magnitude or the conjugate of one, so
\* X[k].im = 0 (ImagZero below) and the sine term vanishes.
IfftReal(X) ==
    LET N == Len(X)
    IN  [n \in 1..N |->
            Reduce(SeqSum([k \in 1..N |-> X[k].re * Cos4((k - 1) * (n - 1), N)[1]]),
                   SeqSum([k \in 1..N |-> X[k].re * Cos4((k - 1) * (n - 1), N)[2]]),
                   4 * N)]

\* ------------------------------------- create_wavetable_from_spectrum
\* if len(spectrum) > wavetable_size // 2: spectrum = spectrum[:wavetable_size // 2]
Truncate(s, N) ==
    IF Len(s) > N \div 2 THEN SubSeq(s, 1, N \div 2) ELSE s

\* complex_spectrum = np.zeros(N, dtype=complex); complex_spectrum[:len(s)] = s
ZeroPhase(s, N) ==
    [k \in 1..N |-> IF k <= Len(s) THEN Cplx(s[k], 0) ELSE Cplx(0, 0)]

\* np.conj(complex_spectrum[1:N//2][::-1]): bins 1 .. N//2-1, reversed.
MirrorSource(cs, N) ==
    LET h == N \div 2
    IN  [j \in 1..(IF h >= 1 THEN h - 1 ELSE 0) |-> Conj(cs[h + 1 - j])]

\* Length of the slice complex_spectrum[N//2+1:].
MirrorTargetLen(N) == N - (N \div 2) - 1

\* numpy's slice assignment a[lo:] = v: v must have the slice's length, or
\* length 1 (it is then broadcast over the slice); anything else raises.
CanAssign(targetLen, sourceLen) == sourceLen = targetLen \/ sourceLen = 1

\* complex_spectrum[N//2+1:] = np.conj(complex_spectrum[1:N//2][::-1])
Mirror(cs, N) ==
    LET h == N \div 2
        src == MirrorSource(cs, N)
    IN  [k \in 1..N |->
            IF k >= h + 2
            THEN (IF Len(src) = 1 THEN src[1] ELSE src[k - h - 1])
            ELSE cs[k]]

\* Normalize with the division left out.
NormalizeSkipped(w) == w

\* if np.max(np.abs(w)) > 0: w = w / np.max(np.abs(w))
Normalize(w) ==
    LET peak == MaxAbs(w)
    IN  IF NumSign(peak) > 0
        THEN [n \in 1..Len(w) |-> NumDiv(w[n], peak)]
        ELSE w

\* The whole method: what it raised, its local complex_spectrum at exit and
\* the array it returned (<<>> when it raised).
CreateWavetableFromSpectrum(s, N) ==
    LET t == Truncate(s, N)
        cs0 == ZeroPhase(t, N)
    IN  IF N > 1 /\ ~CanAssign(MirrorTargetLen(N), Len(MirrorSource(cs0, N)))
        THEN [raised |-> "ValueError", complex_spectrum |-> cs0, wavetable |-> <<>>]
        ELSE LET cs == IF N > 1 THEN Mirror(cs0, N) ELSE cs0
             IN  [raised |-> "none",
                  complex_spectrum |-> cs,
                  wavetable |-> Normalize(IfftReal(cs))]

\* ---------------------------------------------- create_wavetable_stack
\* stft_matrix is a sequence of rows (frequency bins), each a sequence over
\* the frames: stft_matrix.shape[1] is the length of a row.
NumFrames(m) == Len(m[1])

\* stft_matrix[:, frame_idx], frame_idx 0-based.
Column(m, frame_idx) == [b \in 1..Len(m) |-> m[b][frame_idx + 1]]

\* LinspaceInt with endpoint=False: the interval is cut in num steps and the
\* stop itself is never sampled.
LinspaceIntOpenEnd(stop, num) ==
    [i \in 1..num |-> ((i - 1) * stop) \div num]

\* LinspaceInt with the samples rounded to the nearest integer (halves up).
LinspaceIntRounded(stop, num) ==
    [i \in 1..num |->
        IF num = 1 THEN 0
        ELSE (2 * (i - 1) * stop + (num - 1)) \div (2 * (num - 1))]

\* np.linspace(0, stop, num, dtype=int) for stop >= 0, num >= 1: sample i is
\* i * (stop / (num - 1)), the last one is set to stop, and the conversion to
\* int drops the fraction.  A single sample is the start, 0.
LinspaceInt(stop, num) ==
    [i \in 1..num |->
        IF num = 1 THEN 0
        ELSE IF i = num THEN stop
        ELSE ((i - 1) * stop) \div (num - 1)]

\* The whole method: the frame indices it chose, what it raised and the
\* stack it returned (<<>> when a reconstruction raised).
CreateWavetableStack(m, nt, N) ==
    LET idx == LinspaceInt(NumFrames(m) - 1, nt)
        calls == [i \in 1..nt |-> CreateWavetableFromSpectrum(Column(m, idx[i]), N)]
    IN  IF \E i \in 1..nt : calls[i].raised # "none"
        THEN [raised |-> "ValueError", frame_indices |-> idx, wavetables |-> <<>>]
        ELSE [raised |-> "none",
              frame_indices |-> idx,
              wavetables |-> [i \in 1..nt |-> calls[i].wavetable]]

\* ---------------------------------------------------- morph_wavetables
\* Alpha dividing by the number of steps: i / num_steps.
AlphaOverSteps(i, n) == Reduce(i, 0, n)

\* Alpha with floor division: i // (num_steps - 1).
AlphaFloorDiv(i, n) == NumOf(i \div (n - 1))

\* alpha = i / (num_steps - 1), for num_steps # 1.
Alpha(i, n) == Reduce(i, 0, n - 1)

\* (1 - alpha) * a + alpha * b
Lerp(a, b, alpha) == NumAdd(NumMul(NumSub(One, alpha), a), NumMul(alpha, b))

\* Length of the elementwise sum of arrays of lengths la and lb under numpy's
\* broadcasting (a length-1 array is stretched); -1 when they do not combine.
BroadcastLen(la, lb) ==
    IF la = lb THEN la
    ELSE IF la = 1 THEN lb
    ELSE IF lb = 1 THEN la
    ELSE -1

\* Element j of an array stretched by broadcasting.
Stretched(w, j) == IF Len(w) = 1 THEN w[1] ELSE w[j]

\* The whole method: what it raised and the stack it returned.
MorphWavetables(w1, w2, n) ==
    LET la == Len(w1)
        r == BroadcastLen(la, Len(w2))
    IN  IF n < 0
        THEN \* np.zeros((num_steps, ...)): negative dimensions are not allowed
             [raised |-> "ValueError", morphed |-> <<>>]
        ELSE IF n = 0
        THEN \* range(0) is empty: the (0, len) array is returned as built
             [raised |-> "none", morphed |-> <<>>]
        ELSE IF n = 1
        THEN \* i = 0: 0 / (1 - 1)
             [raised |-> "ZeroDivisionError", morphed |-> <<>>]
        ELSE IF r = -1 \/ ~CanAssign(la, r)
        THEN \* the sum does not broadcast, or does not fit the row morphed[i]
             [raised |-> "ValueError", morphed |-> <<>>]
        ELSE [raised |-> "none",
              morphed |-> [i \in 1..n |->
                  [j \in 1..la |->
                      Lerp(NumOf(Stretched(w1, j)), NumOf(Stretched(w2, j)),
                           Alpha(i - 1, n))]]]

\* ----------------------------------------------- generate_saw_wavetable
\* Sample i of a ramp that ends on +1: 2 * i / (size - 1) - 1.
SawSampleInclusive(i, N) ==
    IF N = 1 THEN NumOf(-1)
    ELSE NumSub(NumMul(NumOf(2), Reduce(i, 0, N - 1)), One)

\* 2 * (i / wavetable_size) - 1, sample i of np.arange(wavetable_size).
SawSample(i, N) == NumSub(NumMul(NumOf(2), Reduce(i, 0, N)), One)

\* The whole method.
GenerateSawWavetable(N) == [n \in 1..N |-> SawSample(n - 1, N)]

\* ------------------------------------------------------- save_wavetable
\* The argument is [ndim |-> 1, data |-> samples] or [ndim |-> 2, data |-> rows].
\* if wavetable.ndim == 1: wavetable = wavetable.reshape(1, -1)
Rows(w) == IF w.ndim = 1 THEN <<w.data>> ELSE w.data

RECURSIVE Concat(_)
Concat(rows) == IF Len(rows) = 0 THEN <<>> ELSE rows[1] \o Concat(Tail(rows))

\* Flatten in column-major order: sample 0 of every table, then sample 1, ...
FlattenColumnMajor(rows) ==
    IF Len(rows) = 0 THEN <<>>
    ELSE Concat([j \in 1..Len(rows[1]) |-> [t \in 1..Len(rows) |-> rows[t][j]]])

\* wavetable.flatten(): row-major, table after table.
Flatten(rows) == Concat(rows)

\* The 0.9 of the headroom scaling.
Headroom == <<9, 0, 10>>

\* flattened / np.max(np.abs(flattened)) * 0.9
Rescale(flat) ==
    LET peak == MaxAbs(flat)
    IN  IF NumSign(peak) > 0
        THEN [k \in 1..Len(flat) |-> NumMul(NumDiv(flat[k], peak), Headroom)]
        ELSE flat

\* The whole method: what it raised and the (data, samplerate) given to
\* sf.write.  An array without samples has no maximum: np.max raises (and
\* reshape(1, -1) of an empty 1-D array raises the same error before it).
SaveWavetable(w, rate) ==
    LET flat == Flatten(Rows(w))
    IN  IF Len(flat) = 0
        THEN [raised |-> "ValueError", written |-> <<>>]
        ELSE [raised |-> "none",
              written |-> <<[samples |-> Rescale([k \in 1..Len(flat) |-> NumOf(flat[k])]),
                             samplerate |-> rate]>>]

\* --------------------------------------------------- OutputFormatter
\* A feature map is a sequence (dicts keep insertion order) of entries
\* [key, value]; a key is a sequence of characters; a value is a leaf
\* [kind |-> k] or a nested map [kind |-> "dict", items |-> entries].
\* Leaf kinds: "ndarray" (numeric array), "text_ndarray" (2-D array of a
\* non-numeric dtype), "list", "float" (Python int or float), "np_int" (a
\* numpy scalar such as np.int64) and "complex" (a Python object that json
\* cannot encode).
IsDict(v) == v.kind = "dict"

RECURSIVE Leaves(_, _)
\* The leaves of a map as records [path, kind], path being the keys from the
\* top-level map down to the leaf.
Leaves(entries, path) ==
    IF Len(entries) = 0 THEN {}
    ELSE LET e == entries[1]
             here == Append(path, e.key)
         IN  (IF IsDict(e.value) THEN Leaves(e.value.items, here)
              ELSE {[path |-> here, kind |-> e.value.kind]})
                 \cup Leaves(Tail(entries), path)

\* _convert_numpy_types on a leaf: numpy scalars become Python numbers and
\* arrays become lists; anything else is returned as it is.
ConvertNumpyType(kind) ==
    CASE kind = "np_int" -> "float"
      [] kind \in {"ndarray", "text_ndarray"} -> "list"
      [] OTHER -> kind

\* json.dump raises TypeError on an object it has no encoding for.
JsonEncodable(kind) == kind \in {"float", "list"}

\* np.mean / np.std raise TypeError on an array of a non-numeric dtype.
MeanDefined(kind) == kind # "text_ndarray"

\* to_json: convert, open the file for writing (this creates or truncates
\* it), then json.dump, which writes chunk by chunk until a value fails.
ToJson(data) ==
    IF \A l \in Leaves(data, <<>>) : JsonEncodable(ConvertNumpyType(l.kind))
    THEN [raised |-> "none", output_file |-> "complete"]
    ELSE [raised |-> "TypeError", output_file |-> "partial"]

\* to_csv: flatten (large or multi-dimensional arrays by shape, mean and
\* std), and only then open the file and write the rows.
ToCsv(data) ==
    IF \A l \in Leaves(data, <<>>) : MeanDefined(l.kind)
    THEN [raised |-> "none", output_file |-> "complete"]
    ELSE [raised |-> "TypeError", output_file |-> "absent"]

\* to_txt: open the file for writing, then format the map (large or
\* multi-dimensional arrays by shape, mean and std) and write the text.
ToTxt(data) ==
    IF \A l \in Leaves(data, <<>>) : MeanDefined(l.kind)
    THEN [raised |-> "none", output_file |-> "complete"]
    ELSE [raised |-> "TypeError", output_file |-> "empty"]

\* full_key = f"{prefix}_{key}" if prefix else key
FullKey(prefix, key) == IF prefix = <<>> THEN key ELSE prefix \o <<"_">> \o key

\* arrays[full_key] = value: a key already present keeps its place and gets
\* the new value.
Put(arr, item) ==
    IF \E i \in 1..Len(arr) : arr[i].key = item.key
    THEN [i \in 1..Len(arr) |-> IF arr[i].key = item.key THEN item ELSE arr[i]]
    ELSE Append(arr, item)

RECURSIVE ProcessDict(_, _, _, _)
\* process_dict(d, prefix): arrays and lists are stored, Python ints and
\* floats are stored as one-element arrays, dicts are descended into, and a
\* value of any other type matches no branch.  An item records the leaf it
\* came from (path) and whether it was wrapped.
ProcessDict(entries, prefix, path, arr) ==
    IF Len(entries) = 0 THEN arr
    ELSE LET e == entries[1]
             full_key == FullKey(prefix, e.key)
             here == Append(path, e.key)
             kind == e.value.kind
             next == IF IsDict(e.value)
                     THEN ProcessDict(e.value.items, full_key, here, arr)
                     ELSE IF kind \in {"ndarray", "text_ndarray", "list"}
                     THEN Put(arr, [key |-> full_key, path |-> here, wrapped |-> FALSE])
                     ELSE IF kind = "float"
                     THEN Put(arr, [key |-> full_key, path |-> here, wrapped |-> TRUE])
                     ELSE arr
         IN  ProcessDict(Tail(entries), prefix, path, next)

\* to_npz: flatten, then np.savez_compressed writes the archive.
ToNpz(data) ==
    [raised |-> "none", output_file |-> "complete",
     arrays |-> ProcessDict(data, <<>>, <<>>, <<>>)]

\* save_features: dispatch on the format selector.
SaveFeatures(data, fmt) ==
    CASE fmt = "json" -> ToJson(data) @@ [arrays |-> <<>>]
      [] fmt = "csv" -> ToCsv(data) @@ [arrays |-> <<>>]
      [] fmt = "npz" -> ToNpz(data)
      [] fmt = "txt" -> ToTxt(data) @@ [arrays |-> <<>>]
      [] OTHER -> [raised |-> "ValueError", output_file |-> "absent", arrays |-> <<>>]

\* ------------------------------------------------------------ cli.main
\* choices=['json', 'csv', 'npz', 'txt'] of the --format argument
FormatChoices == {"json", "csv", "npz", "txt"}

\* The exit status of the process when it ignores how the run ended short of
\* telling success from failure.
ExitCodeSuccessOrOne(how) == IF how = "return" THEN 0 ELSE 1

\* The exit status: argparse ends the process with status 2 on an argument
\* it rejects; main returns 1 for a missing input file and from its
\* exception handler, and 0 at the end of the try block.
ExitCode(how) ==
    CASE how = "usage" -> 2
      [] how = "input_not_found" -> 1
      [] how = "exception" -> 1
      [] how = "return" -> 0

\* The input check that lets every path through.
InputNeverMissing(a) == FALSE

\* if not input_path.exists()
InputMissing(a) == ~a.input_exists

\* No run of the command line is in progress.
NoRun ==
    [pc |-> "none",
     args |-> [format |-> "", input_exists |-> FALSE, wavetable |-> FALSE],
     steps |-> <<>>, loaded |-> FALSE, processed |-> FALSE,
     output |-> "absent", exit_code |-> -1]

\* The run ends: sys.exit(main()), or SystemExit raised by argparse.
Exit(m, how) == [m EXCEPT !.pc = "exit", !.exit_code = ExitCode(how)]

\* ------------------------------------------------------ batch_analyze
\* ext.upper()
Upper(ext) == IF ext = ".wav" THEN ".WAV" ELSE ext

\* Path.glob('*' + ext): the indices, in listing order, of the files of the
\* directory whose name ends in ext; matching ignores case where the
\* platform's paths do.
Glob(directory, ext, case_sensitive) ==
    LET Matches(k) == \/ directory[k].ext = ext
                      \/ ~case_sensitive /\ Upper(directory[k].ext) = Upper(ext)
    IN  SelectSeq([k \in 1..Len(directory) |-> k], Matches)

RECURSIVE FindAudioFiles(_, _, _)
\* audio_files: for each extension, the matches of the extension and then
\* the matches of its upper-case form.
FindAudioFiles(directory, extensions, case_sensitive) ==
    IF Len(extensions) = 0 THEN <<>>
    ELSE Glob(directory, extensions[1], case_sensitive)
            \o Glob(directory, Upper(extensions[1]), case_sensitive)
            \o FindAudioFiles(directory, Tail(extensions), case_sensitive)

\* analyze_audio_file: True when loading, analysis and saving all complete;
\* any exception is caught and reported, and the result is False.
AnalyzeAudioFile(outcome) == [returned |-> outcome = "ok", raised |-> "none"]

\* No run of batch_analyze is in progress.
NoBatch ==
    [pc |-> "none", directory |-> <<>>, extensions |-> <<>>,
     case_sensitive |-> TRUE, audio_files |-> <<>>, i |-> 0,
     processed |-> <<>>, success_count |-> 0]

\* ---------------------------------------------------- arrays in memory
\* The memory maps the name of an array object to its contents: a sequence,
\* or for a 2-D array a sequence of rows.  A reference is what a Python name
\* is bound to: the object (base) and the addresses of the elements it
\* covers, <<k>> in a 1-D object and <<r, c>> in a 2-D one.  Basic slicing,
\* column and row indexing and reshape give views: references into the same
\* object.  Arithmetic, np.zeros and flatten() give new objects.
Whole(id, n) == [base |-> id, at |-> [k \in 1..n |-> <<k>>]]

\* ref[lo-1:hi]
Slice(ref, lo, hi) == [base |-> ref.base, at |-> SubSeq(ref.at, lo, hi)]

\* a[:, c-1] of a 2-D object of nrows rows
ColumnView(id, nrows, c) == [base |-> id, at |-> [r \in 1..nrows |-> <<r, c>>]]

\* a[r-1] of a 2-D object of ncols columns
RowView(id, r, ncols) == [base |-> id, at |-> [c \in 1..ncols |-> <<r, c>>]]

Get(data, a) == IF Len(a) = 1 THEN data[a[1]] ELSE data[a[1]][a[2]]

Read(heap, ref) == [k \in 1..Len(ref.at) |-> Get(heap[ref.base], ref.at[k])]

\* A new object under the name id (an older object of that name is garbage).
Alloc(heap, id, data) ==
    [x \in DOMAIN heap \cup {id} |-> IF x = id THEN data ELSE heap[x]]

\* ref[...] = values: the elements the reference covers are overwritten in
\* the object it points into.
Store(heap, ref, values) ==
    LET old == heap[ref.base]
        Pick(a, was) ==
            IF \E j \in 1..Len(ref.at) : ref.at[j] = a
            THEN values[CHOOSE j \in 1..Len(ref.at) : ref.at[j] = a]
            ELSE was
    IN  IF Len(ref.at) = 0 THEN heap
        ELSE [heap EXCEPT ![ref.base] =
                IF Len(ref.at[1]) = 1
                THEN [k \in 1..Len(old) |-> Pick(<<k>>, old[k])]
                ELSE [r \in 1..Len(old) |->
                        [c \in 1..Len(old[r]) |-> Pick(<<r, c>>, old[r][c])]]]

\* create_wavetable_from_spectrum on the array that sp refers to: the name
\* spectrum is rebound to a slice (a view), complex_spectrum is a new array
\* that the two slice assignments store into, and wavetable is bound to the
\* new arrays that ifft and the division return.
CreateEffect(heap, sp, N) ==
    LET r == CreateWavetableFromSpectrum(Read(heap, sp), N)
        h == N \div 2
        kept == IF Len(sp.at) > h THEN Slice(sp, 1, h) ELSE sp
        cs == Whole("complex_spectrum", N)
        h1 == Alloc(heap, "complex_spectrum", ZeroPhase(<<>>, N))
        h2 == Store(h1, Slice(cs, 1, Len(kept.at)),
                    ZeroPhase(Read(h1, kept), Len(kept.at)))
    IN  IF r.raised # "none" THEN [raised |-> r.raised, heap |-> h2]
        ELSE [raised |-> "none",
              heap |-> Alloc(Store(h2, Slice(cs, h + 2, N),
                                   SubSeq(r.complex_spectrum, h + 2, N)),
                             "wavetable", r.wavetable)]

RECURSIVE StackLoop(_, _, _, _, _)
\* The loop of create_wavetable_stack from table i on: spectrum is a column
\* view of stft_matrix, and the reconstruction is stored into row i of
\* wavetables.
StackLoop(heap, idx, i, nt, N) ==
    IF i > nt THEN heap
    ELSE LET m == heap["stft_matrix"]
             e == CreateEffect(heap, ColumnView("stft_matrix", Len(m), idx[i] + 1), N)
         IN  IF e.raised # "none" THEN e.heap
             ELSE StackLoop(Store(e.heap, RowView("wavetables", i, N),
                                  e.heap["wavetable"]),
                            idx, i + 1, nt, N)

\* create_wavetable_stack: wavetables is a new array of zeros.
StackEffect(heap, nt, N) ==
    StackLoop(Alloc(heap, "wavetables", [i \in 1..nt |-> [j \in 1..N |-> Zero]]),
              LinspaceInt(NumFrames(heap["stft_matrix"]) - 1, nt), 1, nt, N)

\* factor *= array: the product is stored into the array itself.
ScaleInPlace(heap, ref, factor, id) ==
    [heap |-> Store(heap, ref, [k \in 1..Len(ref.at) |-> NumMul(factor, Read(heap, ref)[k])]),
     ref |-> ref]

\* factor * array: the product is a new array.
Scale(heap, ref, factor, id) ==
    [heap |-> Alloc(heap, id, [k \in 1..Len(ref.at) |-> NumMul(factor, Read(heap, ref)[k])]),
     ref |-> Whole(id, Len(ref.at))]

RECURSIVE MorphLoop(_, _, _, _)
\* The loop of morph_wavetables from step i on: the two products and their
\* sum are new arrays, and the sum is stored into row i of morphed.
MorphLoop(heap, r, i, n) ==
    IF i > n THEN heap
    ELSE IF n = 1 THEN heap
    ELSE LET la == Len(heap["wavetable1"])
             alpha == Alpha(i - 1, n)
             a == Scale(heap, Whole("wavetable1", la), NumSub(One, alpha), "scaled1")
             b == Scale(a.heap, Whole("wavetable2", Len(heap["wavetable2"])), alpha, "scaled2")
         IN  IF r.raised # "none" THEN b.heap
             ELSE MorphLoop(Store(b.heap, RowView("morphed", i, la), r.morphed[i]),
                            r, i + 1, n)

\* morph_wavetables, r being what the call computes: morphed is a new array
\* of zeros (np.zeros raises on a negative num_steps).
MorphEffect(heap, r, n) ==
    IF n < 0 THEN heap
    ELSE MorphLoop(Alloc(heap, "morphed",
                         [i \in 1..n |-> [j \in 1..Len(heap["wavetable1"]) |-> Zero]]),
                   r, 1, n)

\* save_wavetable: reshape gives a view, flatten() a copy, and the scaled
\* samples are a new array bound to the name flattened.
SaveEffect(heap, ndim) ==
    LET flat == Flatten(Rows([ndim |-> ndim, data |-> heap["wavetable"]]))
        h1 == Alloc(heap, "flattened", flat)
    IN  IF Len(flat) = 0 THEN h1
        ELSE Alloc(h1, "flattened", Rescale([k \in 1..Len(flat) |-> NumOf(flat[k])]))

\* The samples of an array of floats.
AsFloats(w) == [k \in 1..Len(w) |-> NumOf(w[k])]

\* ------------------------------------------------------------- inputs
RECURSIVE SeqsUpTo(_, _)
\* All sequences over S of length at most n.
SeqsUpTo(S, n) ==
    IF n = 0 THEN {<<>>}
    ELSE LET shorter == SeqsUpTo(S, n - 1)
         IN  shorter \cup {Append(s, x) : s \in {t \in shorter : Len(t) = n - 1}, x \in S}

Magnitudes == 0..MaxMag

Spectra == SeqsUpTo(Magnitudes, MaxBins)

Sizes == 1..MaxSize

\* Magnitude matrices of a silent source (seed 0) and of sources whose
\* spectrum changes from frame to frame.
StftEntry(seed, b, f) == (seed * (b + f)) % (MaxMag + 1)

StftMatrices ==
    {[b \in 1..nb |-> [f \in 1..nf |-> StftEntry(seed, b, f)]] :
        nb \in 1..MaxStftBins, nf \in 1..MaxFrames, seed \in 0..MaxSeed}

TableCounts == 1..MaxTables

Amplitudes == -1..MaxAmp

Wavetables == SeqsUpTo(Amplitudes, MaxLen)

StepCounts == -1..MaxSteps

\* 1-D wavetables, and stacks of one or two tables of equal length.
SaveInputs ==
    {[ndim |-> 1, data |-> w] : w \in Wavetables}
        \cup {[ndim |-> 2, data |-> <<a>>] : a \in Wavetables}
        \cup {[ndim |-> 2, data |-> rows] :
                rows \in {p \in Wavetables \X Wavetables : Len(p[1]) = Len(p[2])}}

LeafKinds == {"ndarray", "text_ndarray", "list", "float", "np_int", "complex"}

TopKeys == {<<"a">>, <<"b">>, <<"a", "_", "b">>}

NestedKeys == {<<"a">>, <<"b">>}

\* A leaf, or a nested map with one entry.
FeatureValues ==
    {[kind |-> k] : k \in LeafKinds}
        \cup {[kind |-> "dict", items |-> <<[key |-> nk, value |-> [kind |-> k]]>>] :
                nk \in NestedKeys, k \in LeafKinds}

\* Maps of at most MaxEntries entries with distinct keys.
FeatureMaps ==
    {m \in SeqsUpTo([key : TopKeys, value : FeatureValues], MaxEntries) :
        \A i \in 1..Len(m) : \A j \in 1..Len(m) : i # j => m[i].key # m[j].key}

\* The four selectors save_features knows and one it does not.
Formats == {"json", "csv", "npz", "txt", "xml"}

\* Command lines: a format selector, whether the input path exists, and
\* whether --wavetable is given.
CommandLines == [format : Formats, input_exists : BOOLEAN, wavetable : BOOLEAN]

\* What can happen to the output file while it is written.
WriteOutcomes == {"ok", "open_fails", "write_fails"}

\* What happens when a file is analyzed: everything completes, the decoder
\* or an extractor raises, or saving the summary raises.
FileOutcomes == {"ok", "analysis_error", "save_error"}

\* Directories of at most MaxFiles audio files, in listing order.
Directories == SeqsUpTo([ext : {".wav", ".WAV"}, outcome : FileOutcomes], MaxFiles)

\* Values of the extensions argument.
ExtensionLists == {<<".wav">>, <<".WAV">>, <<".wav", ".WAV">>}

\* ------------------------------------------------------------- actions
\* The call frame a finished call leaves behind, for the calls not made.
NoCreateFrame ==
    /\ spectrum' = <<>>
    /\ complex_spectrum' = <<>>
    /\ wavetable' = <<>>

NoStackFrame ==
    /\ stft_matrix' = <<>>
    /\ num_tables' = 0
    /\ frame_indices' = <<>>
    /\ wavetables' = <<>>

NoMorphFrame ==
    /\ wavetable1' = <<>>
    /\ wavetable2' = <<>>
    /\ num_steps' = 0
    /\ morphed' = <<>>

NoGenerateFrame == generated' = <<>>

NoSaveFrame ==
    /\ save_input' = <<>>
    /\ written' = <<>>

NoFormatterFrame ==
    /\ features' = <<>>
    /\ format' = ""
    /\ output_file' = "absent"
    /\ arrays' = <<>>

Init ==
    /\ sr = DefaultSr
    /\ op = "idle"
    /\ raised = "none"
    /\ spectrum = <<>>
    /\ wavetable_size = 0
    /\ complex_spectrum = <<>>
    /\ wavetable = <<>>
    /\ stft_matrix = <<>>
    /\ num_tables = 0
    /\ frame_indices = <<>>
    /\ wavetables = <<>>
    /\ wavetable1 = <<>>
    /\ wavetable2 = <<>>
    /\ num_steps = 0
    /\ morphed = <<>>
    /\ generated = <<>>
    /\ save_input = <<>>
    /\ written = <<>>
    /\ features = <<>>
    /\ format = ""
    /\ output_file = "absent"
    /\ arrays = <<>>
    /\ main = NoRun
    /\ batch = NoBatch
    /\ memory = <<>>

CallCreateWavetableFromSpectrum ==
    /\ op = "idle"
    /\ \E s \in Spectra, N \in Sizes :
        LET r == CreateWavetableFromSpectrum(s, N)
        IN  /\ op' = "create_wavetable_from_spectrum"
            /\ spectrum' = s
            /\ wavetable_size' = N
            /\ raised' = r.raised
            /\ complex_spectrum' = r.complex_spectrum
            /\ memory' = CreateEffect("spectrum" :> s, Whole("spectrum", Len(s)), N).heap
            /\ wavetable' = r.wavetable
    /\ NoStackFrame
    /\ NoMorphFrame
    /\ NoGenerateFrame
    /\ NoSaveFrame
    /\ NoFormatterFrame
    /\ UNCHANGED <<sr, main, batch>>

CallCreateWavetableStack ==
    /\ op = "idle"
    /\ \E m \in StftMatrices, nt \in TableCounts, N \in Sizes :
        LET r == CreateWavetableStack(m, nt, N)
        IN  /\ op' = "create_wavetable_stack"
            /\ stft_matrix' = m
            /\ num_tables' = nt
            /\ wavetable_size' = N
            /\ raised' = r.raised
            /\ frame_indices' = r.frame_indices
            /\ wavetables' = r.wavetables
            /\ memory' = StackEffect("stft_matrix" :> m, nt, N)
    /\ NoCreateFrame
    /\ NoMorphFrame
    /\ NoGenerateFrame
    /\ NoSaveFrame
    /\ NoFormatterFrame
    /\ UNCHANGED <<sr, main, batch>>

CallMorphWavetables ==
    /\ op = "idle"
    /\ \E w1 \in Wavetables, w2 \in Wavetables, n \in StepCounts :
        LET r == MorphWavetables(w1, w2, n)
        IN  /\ op' = "morph_wavetables"
            /\ wavetable1' = w1
            /\ wavetable2' = w2
            /\ num_steps' = n
            /\ raised' = r.raised
            /\ morphed' = r.morphed
            /\ memory' = MorphEffect(("wavetable1" :> AsFloats(w1)) @@ ("wavetable2" :> AsFloats(w2)), r, n)
    /\ wavetable_size' = 0
    /\ NoCreateFrame
    /\ NoStackFrame
    /\ NoGenerateFrame
    /\ NoSaveFrame
    /\ NoFormatterFrame
    /\ UNCHANGED <<sr, main, batch>>

CallGenerateSawWavetable ==
    /\ op = "idle"
    /\ \E N \in Sizes :
        /\ op' = "generate_saw_wavetable"
        /\ wavetable_size' = N
        /\ raised' = "none"
        /\ generated' = GenerateSawWavetable(N)
    /\ NoCreateFrame
    /\ NoStackFrame
    /\ NoMorphFrame
    /\ NoSaveFrame
    /\ NoFormatterFrame
    /\ memory' = <<>>
    /\ UNCHANGED <<sr, main, batch>>

CallSaveWavetable ==
    /\ op = "idle"
    /\ \E w \in SaveInputs :
        LET r == SaveWavetable(w, sr)
        IN  /\ op' = "save_wavetable"
            /\ save_input' = w
            /\ raised' = r.raised
            /\ written' = r.written
            /\ memory' = SaveEffect("wavetable" :> w.data, w.ndim)
    /\ wavetable_size' = 0
    /\ NoCreateFrame
    /\ NoStackFrame
    /\ NoMorphFrame
    /\ NoGenerateFrame
    /\ NoFormatterFrame
    /\ UNCHANGED <<sr, main, batch>>

CallSaveFeatures ==
    /\ op = "idle"
    /\ \E data \in FeatureMaps, fmt \in Formats :
        LET r == SaveFeatures(data, fmt)
        IN  /\ op' = "save_features"
            /\ features' = data
            /\ format' = fmt
            /\ raised' = r.raised
            /\ output_file' = r.output_file
            /\ arrays' = r.arrays
    /\ wavetable_size' = 0
    /\ NoCreateFrame
    /\ NoStackFrame
    /\ NoMorphFrame
    /\ NoGenerateFrame
    /\ NoSaveFrame
    /\ memory' = <<>>
    /\ UNCHANGED <<sr, main, batch>>

\* Every step of main leaves the synthesizer and the formatter alone.
NoLibraryCall ==
    /\ UNCHANGED <<sr, op, raised, wavetable_size>>
    /\ UNCHANGED <<spectrum, complex_spectrum, wavetable>>
    /\ UNCHANGED <<stft_matrix, num_tables, frame_indices, wavetables>>
    /\ UNCHANGED <<wavetable1, wavetable2, num_steps, morphed>>
    /\ UNCHANGED <<generated, save_input, written>>
    /\ UNCHANGED <<features, format, output_file, arrays, memory>>

\* The command is started with some command line.
CallMain ==
    /\ op = "idle"
    /\ op' = "main"
    /\ \E a \in CommandLines : main' = [NoRun EXCEPT !.pc = "parse_args", !.args = a]
    /\ raised' = "none"
    /\ wavetable_size' = 0
    /\ NoCreateFrame
    /\ NoStackFrame
    /\ NoMorphFrame
    /\ NoGenerateFrame
    /\ NoSaveFrame
    /\ NoFormatterFrame
    /\ memory' = <<>>
    /\ memory' = <<>>
    /\ UNCHANGED <<sr, batch>>

\* args = parser.parse_args(): a --format outside the choices is an error
\* of the argument parser, which prints usage and ends the process.
MainParseArgs ==
    /\ op = "main" /\ main.pc = "parse_args"
    /\ UNCHANGED batch
    /\ main' = IF main.args.format \in FormatChoices
               THEN [main EXCEPT !.pc = "check_input"]
               ELSE Exit(main, "usage")
    /\ NoLibraryCall

\* The input path is checked before the try block.
MainCheckInput ==
    /\ op = "main" /\ main.pc = "check_input"
    /\ UNCHANGED batch
    /\ main' = IF InputMissing(main.args)
               THEN Exit(main, "input_not_found")
               ELSE [main EXCEPT !.pc = "load"]
    /\ NoLibraryCall

\* AudioAnalyzer(str(input_path), sr=args.sr): decoding succeeds or raises
\* (it always raises on a path that does not exist).
MainLoad ==
    /\ op = "main" /\ main.pc = "load"
    /\ UNCHANGED batch
    /\ \E ok \in (IF main.args.input_exists THEN BOOLEAN ELSE {FALSE}) :
        LET m == [main EXCEPT !.steps = Append(@, "load")]
        IN  main' = IF ok
                    THEN [m EXCEPT !.pc = "process", !.loaded = TRUE]
                    ELSE Exit(m, "exception")
    /\ NoLibraryCall

\* extract_wavetables_from_audio, or the feature extraction: it succeeds or
\* raises.
MainProcess ==
    /\ op = "main" /\ main.pc = "process"
    /\ UNCHANGED batch
    /\ \E ok \in BOOLEAN :
        LET m == [main EXCEPT !.steps = Append(@, "process")]
        IN  main' = IF ok
                    THEN [m EXCEPT !.pc = "write", !.processed = TRUE]
                    ELSE Exit(m, "exception")
    /\ NoLibraryCall

\* save_wavetable, or OutputFormatter.save_features, then return 0; a
\* failure to open or to write the file raises.
MainWrite ==
    /\ op = "main" /\ main.pc = "write"
    /\ UNCHANGED batch
    /\ \E w \in WriteOutcomes :
        LET m == [main EXCEPT !.steps = Append(@, "write")]
        IN  main' = CASE w = "ok" -> Exit([m EXCEPT !.output = "complete"], "return")
                      [] w = "open_fails" -> Exit(m, "exception")
                      [] w = "write_fails" -> Exit([m EXCEPT !.output = "partial"], "exception")
    /\ NoLibraryCall

\* batch_analyze is called: the output directory is made and the audio
\* files are collected.
CallBatchAnalyze ==
    /\ op = "idle"
    /\ op' = "batch_analyze"
    /\ \E d \in Directories, e \in ExtensionLists, cs \in BOOLEAN :
        batch' = [pc |-> "loop", directory |-> d, extensions |-> e,
                  case_sensitive |-> cs,
                  audio_files |-> FindAudioFiles(d, e, cs), i |-> 1,
                  processed |-> [k \in 1..Len(d) |-> 0], success_count |-> 0]
    /\ raised' = "none"
    /\ wavetable_size' = 0
    /\ NoCreateFrame
    /\ NoStackFrame
    /\ NoMorphFrame
    /\ NoGenerateFrame
    /\ NoSaveFrame
    /\ NoFormatterFrame
    /\ memory' = <<>>
    /\ UNCHANGED <<sr, main>>

\* One turn of the loop over audio_files: the file is analyzed and counted
\* when the analysis returned True; an exception leaving
\* analyze_audio_file would end batch_analyze.
BatchLoop ==
    /\ op = "batch_analyze" /\ batch.pc = "loop"
    /\ batch.i <= Len(batch.audio_files)
    /\ LET f == batch.audio_files[batch.i]
           r == AnalyzeAudioFile(batch.directory[f].outcome)
           b == [batch EXCEPT !.processed[f] = @ + 1]
       IN  batch' = IF r.raised # "none" THEN [b EXCEPT !.pc = "aborted"]
                    ELSE [b EXCEPT !.i = @ + 1,
                                   !.success_count = IF r.returned THEN @ + 1 ELSE @]
    /\ UNCHANGED main
    /\ NoLibraryCall

\* The loop is over: the counts are printed.
BatchDone ==
    /\ op = "batch_analyze" /\ batch.pc = "loop"
    /\ batch.i > Len(batch.audio_files)
    /\ batch' = [batch EXCEPT !.pc = "done"]
    /\ UNCHANGED main
    /\ NoLibraryCall

\* The caller is done with the call's result (or has handled its exception):
\* the call frame is dropped and the synthesizer is ready for the next call.
Return ==
    /\ op # "idle"
    /\ op = "main" => main.pc = "exit"
    /\ op = "batch_analyze" => batch.pc = "done"
    /\ op' = "idle"
    /\ raised' = "none"
    /\ wavetable_size' = 0
    /\ NoCreateFrame
    /\ NoStackFrame
    /\ NoMorphFrame
    /\ NoGenerateFrame
    /\ NoSaveFrame
    /\ NoFormatterFrame
    /\ memory' = <<>>
    /\ main' = NoRun
    /\ batch' = NoBatch
    /\ UNCHANGED sr

Next ==
    \/ CallCreateWavetableFromSpectrum
    \/ CallCreateWavetableStack
    \/ CallMorphWavetables
    \/ CallGenerateSawWavetable
    \/ CallSaveWavetable
    \/ CallSaveFeatures
    \/ CallMain
    \/ MainParseArgs
    \/ MainCheckInput
    \/ MainLoad
    \/ MainProcess
    \/ MainWrite
    \/ CallBatchAnalyze
    \/ BatchLoop
    \/ BatchDone
    \/ Return

Spec == Init /\ [][Next]_vars

\* ------------------------------------------------------------ properties
\* Bins of the complex spectrum are real: magnitudes at zero phase and
\* conjugates of them (this is what lets IfftReal leave the sine term out).
ImagZero == \A k \in 1..Len(complex_spectrum) : complex_spectrum[k].im = 0

Created == op = "create_wavetable_from_spectrum"

Stacked == op = "create_wavetable_stack"

Morphed == op = "morph_wavetables"

AllZero(s) == \A k \in 1..Len(s) : s[k] = 0

Silent(w) == \A n \in 1..Len(w) : w[n] = Zero

\* Some bin that survives the truncation to wavetable_size // 2 bins is not 0.
HeadNonZero ==
    \E k \in 1..Len(spectrum) : k <= wavetable_size \div 2 /\ spectrum[k] # 0

\* C1: for every positive wavetable_size and every spectrum,
\* create_wavetable_from_spectrum completes without raising and returns
\* exactly wavetable_size samples.
C1_ReturnsWavetableSizeSamples ==
    Created => raised = "none" /\ Len(wavetable) = wavetable_size

\* C2: whenever the call returns, bins 0..N/2-1 of the complex spectrum hold
\* the input magnitudes (truncated or zero-padded) and the spectrum is
\* conjugate-symmetric: bin N-k is the conjugate of bin k for 1 <= k < N.
C2_ConjugateSymmetric ==
    (Created /\ raised = "none") =>
        LET N == wavetable_size
        IN  /\ \A k \in 0..(N \div 2 - 1) :
                complex_spectrum[k + 1] =
                    Cplx(IF k < Len(spectrum) THEN spectrum[k + 1] ELSE 0, 0)
            /\ \A k \in 1..(N - 1) :
                complex_spectrum[N - k + 1] = Conj(complex_spectrum[k + 1])

\* C3 as stated: the returned waveform's peak is never above 1, and it is
\* exactly 1 for every input spectrum that is not all-zero.
C3_PeakOneUnlessInputAllZero ==
    (Created /\ raised = "none") =>
        /\ NumLeq(MaxAbs(wavetable), One)
        /\ (~AllZero(spectrum) => MaxAbs(wavetable) = One)

\* C3 amended: the returned waveform's peak is never above 1; it is exactly 1
\* when one of the first wavetable_size // 2 bins of the input is not zero,
\* and otherwise the waveform is all-zero.
C3_PeakOneUnlessKeptBinsAllZero ==
    (Created /\ raised = "none") =>
        /\ NumLeq(MaxAbs(wavetable), One)
        /\ (HeadNonZero => MaxAbs(wavetable) = One)
        /\ (~HeadNonZero => Silent(wavetable))

\* C3 witness: a spectrum longer than wavetable_size // 2 bins was truncated
\* and reconstructed to a waveform of peak 1 with samples of other sizes.
C3_Witness ==
    /\ Created
    /\ raised = "none"
    /\ Len(spectrum) > wavetable_size \div 2
    /\ HeadNonZero
    /\ MaxAbs(wavetable) = One
    /\ \E n \in 1..Len(wavetable) : NumAbs(wavetable[n]) \notin {Zero, One}

\* C4: for every all-zero spectrum (the empty one too) and every
\* wavetable_size the call returns an all-zero waveform.
C4_ZeroSpectrumGivesZeroWaveform ==
    (Created /\ AllZero(spectrum)) =>
        /\ raised = "none"
        /\ Len(wavetable) = wavetable_size
        /\ Silent(wavetable)

\* C5: with num_tables = 1 the selected frame index is 0; with num_tables
\* equal to the number of frames the indices are 0, 1, ..., num_frames-1.
C5_FirstFrameAndEveryFrame ==
    Stacked =>
        /\ (num_tables = 1 => frame_indices = <<0>>)
        /\ (num_tables = NumFrames(stft_matrix) =>
                frame_indices = [i \in 1..num_tables |-> i - 1])

\* C5 witness: a stack of as many tables as the matrix has frames (3 or more).
C5_Witness ==
    /\ Stacked
    /\ raised = "none"
    /\ num_tables = NumFrames(stft_matrix)
    /\ num_tables >= 3

\* C6 as stated: for num_tables >= 2 index i is the integer nearest to
\* i*(num_frames-1)/(num_tables-1); the first is 0, the last num_frames-1.
C6_IndexIsNearest ==
    (Stacked /\ num_tables >= 2) =>
        LET d == num_tables - 1
            span == NumFrames(stft_matrix) - 1
        IN  /\ \A i \in 1..num_tables :
                2 * Abs(frame_indices[i] * d - (i - 1) * span) <= d
            /\ frame_indices[1] = 0
            /\ frame_indices[num_tables] = span

\* C6 amended: for num_tables >= 2 index i is i*(num_frames-1)/(num_tables-1)
\* with its fraction dropped (the floor); the first is 0, the last
\* num_frames-1.
C6_IndexIsFloor ==
    (Stacked /\ num_tables >= 2) =>
        LET d == num_tables - 1
            span == NumFrames(stft_matrix) - 1
        IN  /\ \A i \in 1..num_tables :
                /\ frame_indices[i] * d <= (i - 1) * span
                /\ (i - 1) * span < (frame_indices[i] + 1) * d
            /\ frame_indices[1] = 0
            /\ frame_indices[num_tables] = span

\* C6 witness: an index whose exact position lies more than one half above it.
C6_Witness ==
    /\ Stacked
    /\ num_tables >= 2
    /\ \E i \in 1..num_tables :
        2 * ((i - 1) * (NumFrames(stft_matrix) - 1)
             - frame_indices[i] * (num_tables - 1)) > num_tables - 1

\* C7: for every matrix with at least one frame and every num_tables >= 1 the
\* call returns without error num_tables tables of wavetable_size samples,
\* the frame indices lie in 0..num_frames-1 and are non-decreasing.
C7_StackShapeAndOrder ==
    Stacked =>
        /\ raised = "none"
        /\ Len(wavetables) = num_tables
        /\ \A i \in 1..Len(wavetables) : Len(wavetables[i]) = wavetable_size
        /\ \A i \in 1..num_tables :
            frame_indices[i] \in 0..(NumFrames(stft_matrix) - 1)
        /\ \A i \in 1..(num_tables - 1) : frame_indices[i] <= frame_indices[i + 1]

\* C8: for equal-length A, B and num_steps >= 2 the call returns num_steps
\* tables, table i being (1 - i/(num_steps-1))*A + (i/(num_steps-1))*B, so
\* table 0 is A and table num_steps-1 is B.
C8_LinearInterpolation ==
    (Morphed /\ Len(wavetable1) = Len(wavetable2) /\ num_steps >= 2) =>
        /\ raised = "none"
        /\ Len(morphed) = num_steps
        /\ \A i \in 1..Len(morphed) :
            /\ Len(morphed[i]) = Len(wavetable1)
            /\ \A j \in 1..Len(morphed[i]) :
                LET v == morphed[i][j]
                IN  /\ v[2] = 0
                    /\ v[1] * (num_steps - 1) =
                        v[3] * ((num_steps - i) * wavetable1[j] + (i - 1) * wavetable2[j])
        /\ morphed[1] = [j \in 1..Len(wavetable1) |-> NumOf(wavetable1[j])]
        /\ morphed[num_steps] = [j \in 1..Len(wavetable2) |-> NumOf(wavetable2[j])]

\* C8 witness: three steps between two different two-sample tables.
C8_Witness ==
    /\ Morphed
    /\ raised = "none"
    /\ num_steps = 3
    /\ Len(wavetable1) = 2
    /\ Len(wavetable2) = 2
    /\ \A j \in 1..2 : wavetable1[j] # wavetable2[j]

\* v lies strictly between the integers a and b.
StrictlyBetween(v, a, b) ==
    /\ NumLess(NumOf(IF a < b THEN a ELSE b), v)
    /\ NumLess(v, NumOf(IF a < b THEN b ELSE a))

\* C9 as stated: for equal-length A # B and num_steps = 4, steps 1 and 2 lie
\* strictly between A and B at every sample index.
C9_StrictlyBetweenEverywhere ==
    (Morphed /\ raised = "none" /\ num_steps = 4
        /\ Len(wavetable1) = Len(wavetable2) /\ wavetable1 # wavetable2) =>
        \A i \in {2, 3} : \A j \in 1..Len(wavetable1) :
            StrictlyBetween(morphed[i][j], wavetable1[j], wavetable2[j])

\* C9 amended: for equal-length A # B and num_steps = 4, steps 1 and 2 lie
\* strictly between A and B at every sample index where A and B differ.
C9_StrictlyBetweenWhereDifferent ==
    (Morphed /\ raised = "none" /\ num_steps = 4
        /\ Len(wavetable1) = Len(wavetable2) /\ wavetable1 # wavetable2) =>
        \A i \in {2, 3} : \A j \in 1..Len(wavetable1) :
            wavetable1[j] # wavetable2[j] =>
                StrictlyBetween(morphed[i][j], wavetable1[j], wavetable2[j])

\* C9 witness: four steps between tables that agree at one index and differ
\* at another.
C9_Witness ==
    /\ Morphed
    /\ raised = "none"
    /\ num_steps = 4
    /\ Len(wavetable1) = 2
    /\ Len(wavetable2) = 2
    /\ wavetable1[1] = wavetable2[1]
    /\ wavetable1[2] # wavetable2[2]

\* C10: for every pair of wavetables of different lengths (one of them may
\* have length 1) morph_wavetables raises and returns no stack.  Stated for
\* the step counts the method is meant for (num_steps >= 2), so that the
\* lengths alone decide the outcome.
C10_UnequalLengthsRaise ==
    (Morphed /\ num_steps >= 2 /\ Len(wavetable1) # Len(wavetable2)) =>
        raised # "none" /\ morphed = <<>>

\* C11: for every num_steps < 2 (1, 0 and negative values) morph_wavetables
\* fails with an error instead of returning a stack.
C11_FewerThanTwoStepsRaise ==
    (Morphed /\ num_steps < 2) => raised # "none"

Generated == op = "generate_saw_wavetable"

Saved == op = "save_wavetable"

\* The tables of save_wavetable's argument, a 1-D argument being one table.
SavedTables == IF save_input.ndim = 1 THEN <<save_input.data>> ELSE save_input.data

\* The largest absolute sample value of save_wavetable's argument.
SavedPeak ==
    LET mags == {Abs(SavedTables[t][j]) :
                    t \in 1..Len(SavedTables), j \in 1..Len(SavedTables[1])}
    IN  CHOOSE m \in mags : \A x \in mags : x <= m

\* C12: save_wavetable writes the tables concatenated in stack order (a 1-D
\* input as one table), num_tables * wavetable_size samples in all, every
\* sample scaled by the same factor so that the peak is 0.9; an all-zero
\* input is written unscaled.  (Stated for inputs that hold a sample.)
C12_WritesConcatenationAtPeakNineTenths ==
    (Saved /\ Len(SavedTables) >= 1 /\ Len(SavedTables[1]) >= 1) =>
        /\ raised = "none"
        /\ Len(written) = 1
        /\ written[1].samplerate = sr
        /\ LET out == written[1].samples
               size == Len(SavedTables[1])
           IN  /\ Len(out) = Len(SavedTables) * size
               /\ \A t \in 1..Len(SavedTables) : \A j \in 1..size :
                    LET v == out[(t - 1) * size + j]
                    IN  /\ v[2] = 0
                        /\ IF SavedPeak > 0
                           THEN v[1] * 10 * SavedPeak = v[3] * 9 * SavedTables[t][j]
                           ELSE v = Zero
               /\ SavedPeak > 0 => MaxAbs(out) = <<9, 0, 10>>

\* C12 witness: a stack of two different two-sample tables, not all-zero and
\* with a peak other than 0.9, was written.
C12_Witness ==
    /\ Saved
    /\ raised = "none"
    /\ save_input.ndim = 2
    /\ Len(save_input.data) = 2
    /\ Len(save_input.data[1]) = 2
    /\ save_input.data[1] # save_input.data[2]
    /\ save_input.data[1][1] # save_input.data[1][2]
    /\ SavedPeak >= 1

\* C13: for every size N >= 1 generate_saw_wavetable(N) returns N values,
\* -1 at index 0, 2*i/N - 1 at index i, strictly increasing, the last one
\* strictly below +1.
C13_SawRamp ==
    Generated =>
        LET N == wavetable_size
        IN  /\ raised = "none"
            /\ Len(generated) = N
            /\ generated[1] = NumOf(-1)
            /\ \A n \in 1..N :
                /\ generated[n][2] = 0
                /\ generated[n][1] * N = generated[n][3] * (2 * (n - 1) - N)
            /\ \A n \in 1..(N - 1) : NumLess(generated[n], generated[n + 1])
            /\ NumLess(generated[N], One)

\* C13 witness: a ramp of three or more samples was generated.
C13_Witness == Generated /\ wavetable_size >= 3 /\ Len(generated) >= 3

FeaturesSaved == op = "save_features"

\* C16: whenever save_features fails (an unsupported format, or a value the
\* chosen serializer cannot convert or write), the error is raised before the
\* output file is created or truncated: the file is left as it was.
C16_FailureLeavesNoFile ==
    (FeaturesSaved /\ raised # "none") => output_file = "absent"

\* C18: to_npz stores every leaf of the nested map (array, list, Python
\* scalar, numpy scalar) under a key of its own, scalars as one-element
\* arrays: every leaf is the source of some stored item.
C18_EveryLeafUnderItsOwnKey ==
    (FeaturesSaved /\ format = "npz" /\ raised = "none") =>
        \A l \in Leaves(features, <<>>) :
            \E i \in 1..Len(arrays) :
                /\ arrays[i].path = l.path
                /\ l.kind \in {"float", "np_int"} => arrays[i].wrapped

Exited == op = "main" /\ main.pc = "exit"

\* The run got past the argument parser and the input check, and loading,
\* processing and writing all completed.
Succeeded == main.loaded /\ main.processed /\ main.output = "complete"

\* C14 (as stated): main ends with exit code 0 on success and 1 on every
\* error: missing input file, unsupported format selector, decode or
\* analysis failure.
C14_ExitZeroOrOne ==
    Exited => main.exit_code = (IF Succeeded THEN 0 ELSE 1)

\* C14 (amended): the exit code is 2 when the format selector is not one of
\* the choices (whatever else is wrong); otherwise 1 when the input file is
\* missing or loading, processing or writing failed; otherwise 0.
C14_ExitCodes ==
    Exited =>
        main.exit_code =
            (IF main.args.format \notin FormatChoices THEN 2
             ELSE IF ~main.args.input_exists THEN 1
             ELSE IF Succeeded THEN 0 ELSE 1)

C14_Witness ==
    Exited /\ main.args.format \notin FormatChoices /\ main.exit_code = 2

IsPrefix(s, t) == Len(s) <= Len(t) /\ \A k \in 1..Len(s) : s[k] = t[k]

\* C15: a run goes load, analyze/synthesize, write, exit in that order; with
\* a missing input file it ends with an error before any load and without
\* output; output is written only after load and analysis both completed,
\* and the run exits with success only after all three.
C15_LoadProcessWriteInOrder ==
    op = "main" =>
        /\ IsPrefix(main.steps, <<"load", "process", "write">>)
        /\ ~main.args.input_exists =>
              /\ main.steps = <<>>
              /\ main.output = "absent"
              /\ main.pc = "exit" => main.exit_code # 0
        /\ (main.output # "absent" \/ "write" \in {main.steps[k] : k \in 1..Len(main.steps)})
              => main.loaded /\ main.processed
        /\ main.processed => main.loaded
        /\ main.exit_code = 0 => Succeeded /\ Len(main.steps) = 3

C15_Witness ==
    Exited /\ Succeeded /\ main.steps = <<"load", "process", "write">>

\* The files of the directory that the search found.
Discovered == {batch.audio_files[k] : k \in 1..Len(batch.audio_files)}

\* C17: batch_analyze processes every discovered file exactly once, whatever
\* happened to the files before it; a failure is caught and does not stop
\* the loop; the final success count is the number of files whose analysis
\* and save both completed.
C17_EachFileOnceAndCounted ==
    op = "batch_analyze" =>
        /\ batch.pc # "aborted"
        /\ batch.pc = "done" =>
              /\ \A f \in Discovered : batch.processed[f] = 1
              /\ batch.success_count =
                    Cardinality({f \in Discovered : batch.directory[f].outcome = "ok"})

\* C19: reconstruction, frame sampling, morphing and saving are pure: after
\* a call of create_wavetable_from_spectrum, create_wavetable_stack,
\* morph_wavetables or save_wavetable the caller's spectrum, STFT matrix and
\* wavetable arrays hold what they held when they were passed, whether the
\* call returned or raised, and the synthesizer's sample rate is the one it
\* was constructed with.
C19_ArgumentsAndRateUnchanged ==
    /\ sr = DefaultSr
    /\ Created => memory["spectrum"] = spectrum
    /\ Stacked => memory["stft_matrix"] = stft_matrix
    /\ Morphed => /\ memory["wavetable1"] = AsFloats(wavetable1)
                  /\ memory["wavetable2"] = AsFloats(wavetable2)
    /\ Saved => memory["wavetable"] = save_input.data

\* A morph of three or more steps over a first wavetable that is not silent
\* has returned its stack.
C19_Witness ==
    /\ Morphed /\ raised = "none" /\ num_steps >= 3
    /\ ~AllZero(wavetable1)
    /\ Len(memory["morphed"]) = num_steps
    /\ memory["morphed"][num_steps] = AsFloats(wavetable2)

====
